---- MODULE Spec2Model ----
(***************************************************************************)
(* Model of pyvac248ipnative_capture_packets (pyvac248ipnative.c): one     *)
(* capture call on a caller-owned UDP socket.  The call is a sequence of   *)
(* steps (pc); the environment supplies the outcome of every system call   *)
(* and the datagram every recvfrom returns.                                *)
(*                                                                         *)
(* recvfrom_res is what recvfrom returns: a datagram longer than the 1472  *)
(* byte buffer is truncated by the kernel and is seen as 1472.             *)
(* payload[i] is the datagram most recently received into the payload      *)
(* region of slot i ("prior" = the caller's bytes are still there).        *)
(***************************************************************************)
EXTENDS Integers, Sequences, FiniteSets, TLC

\* ---------------------------------------------------------------- bounds
MaxDst == 2
MaxIncorrect == 1
MaxIgnored == 2

\* ------------------------------------------------------- program constants
DATA_PACKET_SIZE == 1472
CONFIG_PACKET_SIZE == 48
O_NONBLOCK == 2048
SLOT_SIZE == DATA_PACKET_SIZE + 1
PAYLOAD_STEP == DATA_PACKET_SIZE - 4
COMMAND_STREAM == 90
COMMAND_EXPOSURE == 192
START_BIT == 128

\* ------------------------------------------------------------ input sets
CamIp == "ip_camera"
OtherIp == "ip_other"
CamPort == "port_camera"
OtherPort == "port_other"
Ips == {CamIp, OtherIp}
OtherSizes == {100}
FrameTargets == {1, 2}
FrameBytes == {0, 1, 2, 3}
FramePacketCounts == {1, 2}
FlagChoices == {2, 2 + O_NONBLOCK}
TimeoutMsChoices == {0, 250, 1500}
PriorTimeouts == {[sec |-> 0, usec |-> 0], [sec |-> 1, usec |-> 500000]}
PriorCounts == {5}
PriorMarkers == {1}
VideoFormats == {0, 1, 5, 127, 128, 255, 256, 2147483647, -1, -128, -2147483647 - 1}
Exposures == {0, 64, 128, 255}

\* 24-bit big-endian encoding of a pixel offset (bytes 1..3 of a data packet)
OffsetBytes(n) == <<n \div 65536, (n \div 256) % 256, n % 256>>

Hdr(frame, off) == <<frame>> \o OffsetBytes(off)

Offsets == {0, PAYLOAD_STEP, 734}

\* datagrams the environment can deliver: size, first four bytes, sender
CameraData ==
    {[size |-> DATA_PACKET_SIZE, hdr |-> Hdr(f, o), ip |-> CamIp, port |-> CamPort] :
        f \in FrameBytes, o \in Offsets}

OtherDatagrams ==
    {[size |-> DATA_PACKET_SIZE, hdr |-> Hdr(1, 0), ip |-> OtherIp, port |-> CamPort],
     [size |-> DATA_PACKET_SIZE, hdr |-> Hdr(1, 0), ip |-> CamIp, port |-> OtherPort],
     [size |-> CONFIG_PACKET_SIZE, hdr |-> Hdr(9, 0), ip |-> CamIp, port |-> CamPort],
     [size |-> CONFIG_PACKET_SIZE, hdr |-> Hdr(9, 0), ip |-> OtherIp, port |-> CamPort],
     [size |-> CONFIG_PACKET_SIZE, hdr |-> Hdr(9, 0), ip |-> CamIp, port |-> OtherPort]}
    \cup {[size |-> s, hdr |-> Hdr(8, 0), ip |-> i, port |-> CamPort] :
            s \in OtherSizes, i \in Ips}

Packets == CameraData \cup OtherDatagrams

\* value of ret while the call has not returned
NotReturned == -2

NoPkt == [size |-> -1, hdr |-> <<>>, ip |-> "none", port |-> "none"]

Bytes(p) == [size |-> p.size, hdr |-> p.hdr]

PriorBytes == [size |-> -1, hdr |-> <<>>]

VARIABLES
    pc,
    \* arguments of the call
    dst_size, frames, frame_packets, camera_ip, camera_port,
    max_incorrect_length_packets, network_operation_timeout_ms,
    video_format, exposure,
    \* caller-owned memory: output buffer and *packets_received
    marker, payload, packets_received,
    \* the socket
    sock_flags, sock_rcvtimeo, sock_sndtimeo,
    \* locals of pyvac248ipnative_capture_packets
    packets_received_, incorrect_packets_length,
    fcntl_res_before, fcntl_res_required,
    recvfrom_res, src_sockaddr, src_sockaddr_len, result, ret,
    \* the calls made on the socket: the command datagrams handed to sendto,
    \* the operations in order, and the value returned by the helper call
    \* just made ("none" when the last step was no helper call)
    sent, ops, rc,
    \* history: what the environment did
    pkt, clean, nValid, malRun, nAccepted, accepted, ignorable, exit_by, restore_failed,
    flags0, rcvtimeo0, sndtimeo0

args == <<dst_size, frames, frame_packets, camera_ip, camera_port,
          max_incorrect_length_packets, network_operation_timeout_ms,
          video_format, exposure>>
buffer == <<marker, payload>>
sock == <<sock_flags, sock_rcvtimeo, sock_sndtimeo>>
locals == <<packets_received_, incorrect_packets_length, recvfrom_res,
            src_sockaddr, src_sockaddr_len, result>>
fcntl_res == <<fcntl_res_before, fcntl_res_required>>
calls == <<sent, ops, rc>>
history == <<pkt, clean, nValid, malRun, nAccepted, accepted, ignorable,
             exit_by, restore_failed,
             flags0, rcvtimeo0, sndtimeo0>>
vars == <<pc, args, buffer, packets_received, sock, locals, fcntl_res, ret,
          calls, history>>

Slots == 0..(dst_size - 1)

\* ---------------------------------------------------------------- helpers
\* f | bit, for a single-bit mask
OrBit(f, bit) == IF (f \div bit) % 2 = 1 THEN f ELSE f + bit

\* the slots whose marker the loop of lines 150-152 reaches: p runs over the
\* byte offsets 0, 1473, 2946, ... while p < dst_size
ZeroedSlots(n) == {i \in 0..(n - 1) : i * SLOT_SIZE < n}

ZeroMarkers(m, n) == [i \in DOMAIN m |-> IF i \in ZeroedSlots(n) THEN 0 ELSE m[i]]

\* packet_offset of line 212
PacketOffset(buf) == buf[2] * 65536 + buf[3] * 256 + buf[4]

\* SkipPacket without the sentinel test
SkipPacket_NoSentinel(frame_number, packet_offset, fp) ==
    \/ packet_offset > PAYLOAD_STEP * (fp - 1)
    \/ packet_offset % PAYLOAD_STEP # 0

\* SkipPacket without the alignment test
SkipPacket_NoModulo(frame_number, packet_offset, fp) ==
    \/ frame_number = 0
    \/ packet_offset > PAYLOAD_STEP * (fp - 1)

\* the condition of lines 214-218
SkipPacket(frame_number, packet_offset, fp) ==
    \/ frame_number = 0
    \/ packet_offset > PAYLOAD_STEP * (fp - 1)
    \/ packet_offset % PAYLOAD_STEP # 0

\* the sender check of lines 202 and 229
SenderMismatch(addr, ip) == addr # ip

\* TooManyIncorrect with >= for >
TooManyIncorrect_OffByOne(n, max) == n >= max

\* the condition of line 238
TooManyIncorrect(n, max) == n > max

\* struct timeval of lines 341-342; timeout_ms >= 0, where C's / and % are
\* \div and %
Timeval(timeout_ms) ==
    [sec |-> timeout_ms \div 1000, usec |-> (timeout_ms % 1000) * 1000]

\* A 32-bit unsigned int is kept as two 16-bit halves.
HALF == 256 * 256

\* conversion of an int (two's complement) to unsigned int
Unsigned(x) == [hi |-> (x \div HALF) % HALF, lo |-> x % HALF]

\* unsigned addition, wrapping at 2^32
UnsignedAdd(a, b) ==
    [hi |-> (a.hi + b.hi + ((a.lo + b.lo) \div HALF)) % HALF,
     lo |-> (a.lo + b.lo) % HALF]

\* u & 0xff
LowByte(u) == u.lo % 256

\* the datagram of lines 289-298; command and data are unsigned int
CommandBuf(command, data) ==
    <<LowByte(command), LowByte(data), 0, 0, 0, 0, 0,
      LowByte(UnsignedAdd(command, data))>>

\* lines 24-25
StopCommand == CommandBuf(Unsigned(COMMAND_STREAM), Unsigned(0))

\* StartCommand without the | 0x80
StartCommand_NoStartBit(format) ==
    CommandBuf(Unsigned(COMMAND_STREAM), Unsigned(format))

\* lines 20-21: (format) | 0x80 on the int, passed as unsigned int
StartCommand(format) ==
    LET u == Unsigned(format)
    IN  CommandBuf(Unsigned(COMMAND_STREAM), [u EXCEPT !.lo = OrBit(u.lo, START_BIT)])

\* lines 28-29: exposure is a uint8_t
ExposureCommand(e) == CommandBuf(Unsigned(COMMAND_EXPOSURE), Unsigned(e))

\* PacketBufferSlot that does not advance with the count
PacketBufferSlot_First(n) == (0 * SLOT_SIZE) \div SLOT_SIZE

\* byte offset of the slot the loop receives into (line 169), as a slot index
PacketBufferSlot(n) == (n * SLOT_SIZE) \div SLOT_SIZE

\* what a helper whose return value is discarded can return: 0 or -1
HelperResults == {"ok", "fail"}

\* a call of a helper: it is logged and its return value is not looked at
Call(op) ==
    /\ ops' = Append(ops, op)
    /\ \E r \in HelperResults : rc' = r

\* pyvac248ipnative_impl_send_command_ called with the datagram buf: the
\* datagram is handed to sendto; -1 if sendto or the sleep after it fails
SendCommand(op, buf) ==
    /\ Call(op)
    /\ sent' = Append(sent, buf)

\* poll and recvfrom of the receive loop: only the first call of each is logged
LoopCall(op) ==
    /\ ops' = IF \E i \in DOMAIN ops : ops[i] = op THEN ops ELSE Append(ops, op)
    /\ rc' = "none"
    /\ sent' = sent

\* a step that calls nothing that is logged
NoCall ==
    /\ rc' = "none"
    /\ UNCHANGED <<sent, ops>>

\* ------------------------------------------------------------------- Init
\* the state when the call begins: the arguments, the caller's buffer and
\* count, and the socket's settings are drawn from the given sets; the locals
\* hold their initialisers (lines 114-135).  src_sockaddr_len has none: its
\* stale value is negative, too short to hold the address, or large enough.
InitWith(dsts, frs, fps, maxs, tmos, tvs, fmts, exps, igns) ==
    /\ pc = "Entry"
    /\ dst_size \in dsts
    /\ frames \in frs
    /\ frame_packets \in fps
    /\ camera_ip = CamIp
    /\ camera_port = CamPort
    /\ max_incorrect_length_packets \in maxs
    /\ network_operation_timeout_ms \in tmos
    /\ video_format \in fmts
    /\ exposure \in exps
    /\ \E m \in PriorMarkers : marker = [i \in 0..(dst_size - 1) |-> m]
    /\ payload = [i \in 0..(dst_size - 1) |-> PriorBytes]
    /\ packets_received \in PriorCounts
    /\ sock_flags \in FlagChoices
    /\ sock_rcvtimeo \in tvs
    /\ sock_sndtimeo \in tvs
    /\ packets_received_ = 0
    /\ incorrect_packets_length = 0
    /\ fcntl_res_before = 0
    /\ fcntl_res_required = 0
    /\ recvfrom_res = 0
    /\ src_sockaddr = "uninit"
    /\ src_sockaddr_len \in {"neg", "short", "ok"}
    /\ result = 0
    /\ ret = NotReturned
    /\ sent = <<>>
    /\ ops = <<>>
    /\ rc = "none"
    /\ pkt = NoPkt
    /\ clean = TRUE
    /\ nValid = 0
    /\ malRun = 0
    /\ nAccepted = 0
    /\ accepted = <<>>
    /\ ignorable \in igns
    /\ exit_by = "none"
    /\ restore_failed = FALSE
    /\ flags0 = sock_flags
    /\ rcvtimeo0 = sock_rcvtimeo
    /\ sndtimeo0 = sock_sndtimeo

\* the stream's parameters range; the socket's timeouts are one value
Init ==
    InitWith(1..MaxDst, FrameTargets, FramePacketCounts, 0..MaxIncorrect,
             {1500}, {[sec |-> 0, usec |-> 0]}, {1}, {64}, {-1})

\* the socket's settings range; the stream's parameters are the smallest
InitSock ==
    InitWith({1}, {1}, {1}, {0}, TimeoutMsChoices, PriorTimeouts, {1}, {64}, {-1})

\* the command arguments range; the stream's parameters are the smallest
InitCmd ==
    InitWith({1}, {1}, {1}, {0}, {1500}, {[sec |-> 0, usec |-> 0]},
             VideoFormats, Exposures, {-1})

\* the environment delivers at most ignorable datagrams that the loop ignores
\* (any number when ignorable is -1); the stream has one frame of one packet
InitLive ==
    InitWith(1..MaxDst, {1}, {1}, 0..MaxIncorrect, {1500}, {[sec |-> 0, usec |-> 0]},
             {1}, {64}, (-1)..MaxIgnored)

\* ------------------------------------------------------- entry, 137-152
EntryGetFlFail ==
    /\ pc = "Entry"
    /\ NoCall
    /\ pc' = "Done"
    /\ fcntl_res_before' = -1
    /\ ret' = -1
    /\ UNCHANGED <<args, buffer, packets_received, sock, locals,
                   fcntl_res_required, history>>

EntrySetFlFail ==
    /\ pc = "Entry"
    /\ NoCall
    /\ OrBit(sock_flags, O_NONBLOCK) # sock_flags
    /\ pc' = "Done"
    /\ fcntl_res_before' = sock_flags
    /\ fcntl_res_required' = OrBit(sock_flags, O_NONBLOCK)
    /\ ret' = -1
    /\ UNCHANGED <<args, buffer, packets_received, sock, locals, history>>

Entry ==
    /\ pc = "Entry"
    /\ NoCall
    /\ fcntl_res_before' = sock_flags
    /\ fcntl_res_required' = OrBit(sock_flags, O_NONBLOCK)
    /\ sock_flags' = fcntl_res_required'
    /\ marker' = ZeroMarkers(marker, dst_size)
    /\ pc' = "CmdStop"
    /\ UNCHANGED <<args, payload, packets_received, sock_rcvtimeo, sock_sndtimeo,
                   locals, ret, history>>

\* -------------------------------------------- command sequence, 154-166
\* sendto may fail or succeed; neither outcome is looked at by the caller
CmdStop ==
    /\ pc = "CmdStop"
    /\ SendCommand("stop", StopCommand)
    /\ pc' = "Drain"
    /\ UNCHANGED <<args, buffer, packets_received, sock, locals, fcntl_res, ret, history>>

Drain ==
    /\ pc = "Drain"
    /\ Call("drain") /\ sent' = sent
    /\ pc' = "CmdStart"
    /\ UNCHANGED <<args, buffer, packets_received, sock, locals, fcntl_res, ret, history>>

CmdStart ==
    /\ pc = "CmdStart"
    /\ SendCommand("start", StartCommand(video_format))
    /\ pc' = "CmdExposure"
    /\ UNCHANGED <<args, buffer, packets_received, sock, locals, fcntl_res, ret, history>>

\* CmdExposure that goes on to the loop without sending
CmdExposure_NotSent ==
    /\ pc = "CmdExposure"
    /\ NoCall
    /\ pc' = "Poll"
    /\ UNCHANGED <<args, buffer, packets_received, sock, locals, fcntl_res, ret, history>>

CmdExposure ==
    /\ pc = "CmdExposure"
    /\ SendCommand("exposure", ExposureCommand(exposure))
    /\ pc' = "Poll"
    /\ UNCHANGED <<args, buffer, packets_received, sock, locals, fcntl_res, ret, history>>

\* ------------------------------------------------- receive loop, 168-247
\* line 168: the loop condition fails; result keeps its value 0
LoopFull ==
    /\ pc = "Poll"
    /\ NoCall
    /\ ~(packets_received_ < dst_size)
    /\ exit_by' = "full"
    /\ pc' = "ShutStop"
    /\ UNCHANGED <<args, buffer, packets_received, sock, locals, fcntl_res, ret,
                   pkt, clean, nValid, malRun, nAccepted, accepted, ignorable,
                   restore_failed,
                   flags0, rcvtimeo0, sndtimeo0>>

\* poll() == 1
PollReady ==
    /\ pc = "Poll"
    /\ LoopCall("poll")
    /\ packets_received_ < dst_size
    /\ pc' = "Recv"
    /\ UNCHANGED <<args, buffer, packets_received, sock, locals, fcntl_res, ret, history>>

\* poll() == 0, lines 176-179
PollTimeout ==
    /\ pc = "Poll"
    /\ LoopCall("poll")
    /\ packets_received_ < dst_size
    /\ result' = 1
    /\ exit_by' = "timeout"
    /\ pc' = "ShutStop"
    /\ UNCHANGED <<args, buffer, packets_received, sock, fcntl_res, ret,
                   packets_received_, incorrect_packets_length, recvfrom_res,
                   src_sockaddr, src_sockaddr_len,
                   pkt, clean, nValid, malRun, nAccepted, accepted, ignorable,
                   restore_failed,
                   flags0, rcvtimeo0, sndtimeo0>>

\* PollError that leaves for the output block at once
PollError_NoShutdown ==
    /\ pc = "Poll"
    /\ LoopCall("poll")
    /\ packets_received_ < dst_size
    /\ result' = -1
    /\ exit_by' = "poll_error"
    /\ pc' = "Output"
    /\ UNCHANGED <<args, buffer, packets_received, sock, fcntl_res, ret,
                   packets_received_, incorrect_packets_length, recvfrom_res,
                   src_sockaddr, src_sockaddr_len,
                   pkt, clean, nValid, malRun, nAccepted, accepted, ignorable,
                   restore_failed, flags0, rcvtimeo0, sndtimeo0>>

\* poll() < 0, lines 180-185
PollError ==
    /\ pc = "Poll"
    /\ LoopCall("poll")
    /\ packets_received_ < dst_size
    /\ result' = -1
    /\ exit_by' = "poll_error"
    /\ pc' = "ShutStop"
    /\ UNCHANGED <<args, buffer, packets_received, sock, fcntl_res, ret,
                   packets_received_, incorrect_packets_length, recvfrom_res,
                   src_sockaddr, src_sockaddr_len,
                   pkt, clean, nValid, malRun, nAccepted, accepted, ignorable,
                   restore_failed,
                   flags0, rcvtimeo0, sndtimeo0>>

\* recvfrom() < 0 with nothing delivered, lines 193-198
RecvError ==
    /\ pc = "Recv"
    /\ LoopCall("recv")
    /\ recvfrom_res' = -1
    /\ result' = -1
    /\ exit_by' = "recv_error"
    /\ pc' = "ShutStop"
    /\ UNCHANGED <<args, buffer, packets_received, sock, fcntl_res, ret,
                   packets_received_, incorrect_packets_length,
                   src_sockaddr, src_sockaddr_len,
                   pkt, clean, nValid, malRun, nAccepted, accepted, ignorable,
                   restore_failed,
                   flags0, rcvtimeo0, sndtimeo0>>

\* src_sockaddr_len (line 129) is passed to recvfrom without ever being set.
\* When the stale value is negative the kernel copies the datagram into the
\* buffer and then fails the call with EINVAL.
RecvBadAddrLen ==
    /\ pc = "Recv"
    /\ LoopCall("recv")
    /\ src_sockaddr_len = "neg"
    /\ \E p \in Packets :
        payload' = [payload EXCEPT ![PacketBufferSlot(packets_received_)] = Bytes(p)]
    /\ recvfrom_res' = -1
    /\ result' = -1
    /\ exit_by' = "recv_error"
    /\ pc' = "ShutStop"
    /\ UNCHANGED <<args, marker, packets_received, sock, fcntl_res, ret,
                   packets_received_, incorrect_packets_length,
                   src_sockaddr, src_sockaddr_len,
                   pkt, clean, nValid, malRun, nAccepted, accepted, ignorable,
                   restore_failed,
                   flags0, rcvtimeo0, sndtimeo0>>

\* the datagram continues a stream of the synthetic camera: 1472 bytes from
\* the camera address, frame numbers starting at 1 and never decreasing,
\* offset a multiple of 1468 inside the frame
CleanPacket(p) ==
    /\ p.size = DATA_PACKET_SIZE
    /\ p.ip = camera_ip
    /\ p.port = camera_port
    /\ p.hdr[1] >= (IF pkt = NoPkt THEN 1 ELSE pkt.hdr[1])
    /\ (pkt = NoPkt) => (p.hdr[1] = 1)
    /\ PacketOffset(p.hdr) % PAYLOAD_STEP = 0
    /\ PacketOffset(p.hdr) <= PAYLOAD_STEP * (frame_packets - 1)

\* what lines 200-246 do with a received datagram of length res whose sender
\* field reads addr and whose first bytes are buf:
\*   "ignore" (continue), "complete" (break, result 0), "abort" (break,
\*   result 2), "malformed" (continue after counting), "data", "config"
Classify(res, addr, buf, n_incorrect) ==
    IF res = DATA_PACKET_SIZE THEN
        IF SenderMismatch(addr, camera_ip) THEN "ignore"
        ELSE IF SkipPacket(buf[1], PacketOffset(buf), frame_packets) THEN "skip"
        ELSE IF buf[1] > frames THEN "complete"
        ELSE "data"
    ELSE IF res = CONFIG_PACKET_SIZE THEN
        IF SenderMismatch(addr, camera_ip) THEN "ignore"
        ELSE "config"
    ELSE IF TooManyIncorrect(n_incorrect + 1, max_incorrect_length_packets)
        THEN "abort"
        ELSE "malformed"

\* NextIncorrect that does not count a malformed datagram
NextIncorrect_NoCount(class, n_incorrect) ==
    CASE class \in {"skip", "complete", "data", "config"} -> 0
      [] OTHER -> n_incorrect

\* NextIncorrect that leaves the counter alone for a skipped packet
NextIncorrect_SkipKeeps(class, n_incorrect) ==
    CASE class \in {"complete", "data", "config"} -> 0
      [] class \in {"abort", "malformed"} -> n_incorrect + 1
      [] OTHER -> n_incorrect

\* incorrect_packets_length after the datagram, lines 209, 235, 237
NextIncorrect(class, n_incorrect) ==
    CASE class \in {"skip", "complete", "data", "config"} -> 0
      [] class \in {"abort", "malformed"} -> n_incorrect + 1
      [] OTHER -> n_incorrect

\* recvfrom() >= 0 and the rest of the loop body, lines 187-246
Receive ==
    /\ pc = "Recv"
    /\ LoopCall("recv")
    /\ src_sockaddr_len # "neg"
    /\ \E p \in Packets, stale \in Ips :
        LET addr == IF src_sockaddr_len = "short" THEN stale ELSE p.ip
            class == Classify(p.size, addr, p.hdr, incorrect_packets_length)
            slot == PacketBufferSlot(packets_received_)
        IN  /\ class \in {"ignore", "skip"} => ignorable # 0
            /\ ignorable' = IF class \in {"ignore", "skip"} /\ ignorable > 0
                               THEN ignorable - 1 ELSE ignorable
            /\ recvfrom_res' = p.size
            /\ src_sockaddr' = addr
            /\ payload' = [payload EXCEPT ![slot] = Bytes(p)]
            /\ marker' = IF class = "config"
                            THEN [marker EXCEPT ![slot] = 1]
                            ELSE marker
            /\ incorrect_packets_length' = NextIncorrect(class, incorrect_packets_length)
            /\ packets_received_' = IF class \in {"data", "config"}
                                       THEN packets_received_ + 1
                                       ELSE packets_received_
            /\ result' = IF class = "abort" THEN 2 ELSE result
            /\ pc' = IF class \in {"complete", "abort"} THEN "ShutStop" ELSE "Poll"
            /\ exit_by' = IF class \in {"complete", "abort"} THEN class ELSE exit_by
            /\ pkt' = p
            /\ clean' = (clean /\ CleanPacket(p))
            /\ nValid' = IF clean /\ CleanPacket(p) /\ p.hdr[1] <= frames
                            THEN nValid + 1 ELSE nValid
            /\ malRun' = IF p.size \notin {DATA_PACKET_SIZE, CONFIG_PACKET_SIZE}
                            THEN malRun + 1 ELSE 0
            /\ nAccepted' = IF class \in {"data", "config"}
                               THEN nAccepted + 1 ELSE nAccepted
            /\ accepted' = IF class \in {"data", "config"}
                               THEN Append(accepted, [kind |-> class, bytes |-> Bytes(p)])
                               ELSE accepted
    /\ src_sockaddr_len' = "ok"
    /\ UNCHANGED <<args, packets_received, sock, fcntl_res, ret,
                   restore_failed, flags0, rcvtimeo0, sndtimeo0>>

\* ----------------------------------------------------- shutdown, 249-265
ShutStop ==
    /\ pc = "ShutStop"
    /\ SendCommand("stop", StopCommand)
    /\ pc' = "ShutSleep"
    /\ UNCHANGED <<args, buffer, packets_received, sock, locals, fcntl_res, ret, history>>

ShutSleep ==
    /\ pc = "ShutSleep"
    /\ Call("sleep") /\ sent' = sent
    /\ pc' = "ShutDrain"
    /\ UNCHANGED <<args, buffer, packets_received, sock, locals, fcntl_res, ret, history>>

ShutDrain ==
    /\ pc = "ShutDrain"
    /\ Call("drain") /\ sent' = sent
    /\ pc' = "Restore"
    /\ UNCHANGED <<args, buffer, packets_received, sock, locals, fcntl_res, ret, history>>

\* line 256: nothing to restore, no system call is made
RestoreSkip ==
    /\ pc = "Restore"
    /\ NoCall
    /\ fcntl_res_required = fcntl_res_before
    /\ pc' = "Output"
    /\ UNCHANGED <<args, buffer, packets_received, sock, locals, fcntl_res, ret, history>>

\* RestoreFlagsFail that leaves the status of the loop in place
RestoreFlagsFail_StatusKept ==
    /\ pc = "Restore"
    /\ ops' = Append(ops, "restore") /\ rc' = "none" /\ sent' = sent
    /\ fcntl_res_required # fcntl_res_before
    /\ result' = result
    /\ restore_failed' = TRUE
    /\ pc' = "Output"
    /\ UNCHANGED <<args, buffer, packets_received, sock, fcntl_res, ret,
                   packets_received_, incorrect_packets_length, recvfrom_res,
                   src_sockaddr, src_sockaddr_len,
                   pkt, clean, nValid, malRun, nAccepted, accepted, ignorable,
                   exit_by, flags0, rcvtimeo0, sndtimeo0>>

\* line 257: fcntl(F_SETFL) fails; the timeout is not attempted
RestoreFlagsFail ==
    /\ pc = "Restore"
    /\ ops' = Append(ops, "restore") /\ rc' = "none" /\ sent' = sent
    /\ fcntl_res_required # fcntl_res_before
    /\ result' = -1
    /\ restore_failed' = TRUE
    /\ pc' = "Output"
    /\ UNCHANGED <<args, buffer, packets_received, sock, fcntl_res, ret,
                   packets_received_, incorrect_packets_length, recvfrom_res,
                   src_sockaddr, src_sockaddr_len,
                   pkt, clean, nValid, malRun, nAccepted, accepted, ignorable,
                   exit_by, flags0, rcvtimeo0, sndtimeo0>>

\* SetSocketTimeout that never sets SO_SNDTIMEO
SetSocketTimeout_RcvOnly(timeout_ms, n_ok) ==
    /\ sock_rcvtimeo' = IF n_ok >= 1 THEN Timeval(timeout_ms) ELSE sock_rcvtimeo
    /\ sock_sndtimeo' = sock_sndtimeo

\* pyvac248ipnative_impl_set_socket_timeout_: how many of the two setsockopt
\* calls succeed (0: SO_RCVTIMEO fails, 1: SO_SNDTIMEO fails, 2: both succeed)
SetSocketTimeout(timeout_ms, n_ok) ==
    /\ sock_rcvtimeo' = IF n_ok >= 1 THEN Timeval(timeout_ms) ELSE sock_rcvtimeo
    /\ sock_sndtimeo' = IF n_ok >= 2 THEN Timeval(timeout_ms) ELSE sock_sndtimeo

\* RestoreFlags that writes back the flags of the capture
RestoreFlags_KeepNonBlocking(n_ok) ==
    /\ sock_flags' = fcntl_res_required
    /\ SetSocketTimeout(network_operation_timeout_ms, n_ok)

\* lines 257-258: the flags are restored, then the timeout is applied
RestoreFlags(n_ok) ==
    /\ sock_flags' = fcntl_res_before
    /\ SetSocketTimeout(network_operation_timeout_ms, n_ok)

RestoreTimeoutFail ==
    /\ pc = "Restore"
    /\ ops' = Append(ops, "restore") /\ rc' = "none" /\ sent' = sent
    /\ fcntl_res_required # fcntl_res_before
    /\ \E n_ok \in {0, 1} : RestoreFlags(n_ok)
    /\ result' = -1
    /\ restore_failed' = TRUE
    /\ pc' = "Output"
    /\ UNCHANGED <<args, buffer, packets_received, fcntl_res, ret,
                   packets_received_, incorrect_packets_length, recvfrom_res,
                   src_sockaddr, src_sockaddr_len,
                   pkt, clean, nValid, malRun, nAccepted, accepted, ignorable,
                   exit_by, flags0, rcvtimeo0, sndtimeo0>>

Restore ==
    /\ pc = "Restore"
    /\ ops' = Append(ops, "restore") /\ rc' = "none" /\ sent' = sent
    /\ fcntl_res_required # fcntl_res_before
    /\ RestoreFlags(2)
    /\ pc' = "Output"
    /\ UNCHANGED <<args, buffer, packets_received, locals, fcntl_res, ret, history>>

\* ------------------------------------------------------- output, 267-274
\* ReportedCount that keeps the count on success only
ReportedCount_SuccessOnly(res, n) == IF res # 0 THEN 0 ELSE n

\* lines 268-272
ReportedCount(res, n) == IF res = -1 THEN 0 ELSE n

Output ==
    /\ pc = "Output"
    /\ NoCall
    /\ packets_received_' = ReportedCount(result, packets_received_)
    /\ packets_received' = packets_received_'
    /\ ret' = result
    /\ pc' = "Done"
    /\ UNCHANGED <<args, buffer, sock, fcntl_res, incorrect_packets_length,
                   recvfrom_res, src_sockaddr, src_sockaddr_len, result, history>>

Next ==
    \/ EntryGetFlFail \/ EntrySetFlFail \/ Entry
    \/ CmdStop \/ Drain \/ CmdStart \/ CmdExposure
    \/ LoopFull \/ PollReady \/ PollTimeout \/ PollError
    \/ RecvError \/ RecvBadAddrLen \/ Receive
    \/ ShutStop \/ ShutSleep \/ ShutDrain
    \/ RestoreSkip \/ RestoreFlagsFail \/ RestoreTimeoutFail \/ Restore
    \/ Output

Spec == Init /\ [][Next]_vars

SpecSock == InitSock /\ [][Next]_vars

SpecCmd == InitCmd /\ [][Next]_vars

\* The call runs on the calling thread alone and every step is a system call
\* that returns (poll within its timeout, nanosleep, the non-blocking
\* recvfrom of the drain once the queue is empty): a step that can be taken
\* is taken.  Every step changes pc.
SpecLive == InitLive /\ [][Next]_vars /\ WF_pc(Next)

\* =================================================================== claims
\* positions between the end of the receive loop and the restoration, where
\* result still is the status the loop computed
AfterLoop == {"ShutStop", "ShutSleep", "ShutDrain", "Restore"}

\* the step that receives a datagram of pkt' and runs the loop body on it
Received == pc = "Recv" /\ recvfrom_res' >= 0

FromCamera(p) == p.ip = camera_ip /\ p.port = camera_port

BadOffset(p) ==
    \/ PacketOffset(p.hdr) % 1468 # 0
    \/ PacketOffset(p.hdr) > 1468 * (frame_packets - 1)

\* C1: while the datagrams received are 1472-byte packets from the camera
\* with frame numbers 1, .., N in order and valid offsets, the first packet
\* whose frame number exceeds frames ends the loop with result 0, and
\* packets_received_ is the number of packets of the stream before it.
C1_FrameCompleteEndsStream ==
    (clean /\ pkt # NoPkt /\ pkt.hdr[1] > frames)
        => /\ pc \notin {"Poll", "Recv"}
           /\ pc \in AfterLoop => (result = 0 /\ packets_received_ = nValid)

\* C2 as claimed: a received 1472-byte packet with frame number 0 leaves the
\* accepted count and every byte of the output buffer as they were.
C2_SentinelNeverWritten ==
    [][(Received /\ recvfrom_res' = 1472 /\ pkt'.hdr[1] = 0)
          => (packets_received_' = packets_received_ /\ buffer' = buffer)]_vars

\* C2 as amended: a received 1472-byte packet with frame number 0 leaves the
\* accepted count and every kind marker as they were, and its bytes land in
\* the payload region of slot packets_received_ and in no other slot.
C2_SentinelOnlyInFreeSlot ==
    [][(Received /\ recvfrom_res' = 1472 /\ pkt'.hdr[1] = 0)
          => /\ packets_received_' = packets_received_
             /\ marker' = marker
             /\ payload'[packets_received_] = Bytes(pkt')
             /\ \A i \in Slots : i # packets_received_ => payload'[i] = payload[i]]_vars

C2_Witness ==
    /\ pc = "Poll"
    /\ recvfrom_res = 1472
    /\ FromCamera(pkt) /\ src_sockaddr = camera_ip
    /\ pkt.hdr[1] = 0
    /\ packets_received_ = 1 /\ dst_size = 2
    /\ payload[1] = Bytes(pkt)

\* C3: a received 1472-byte packet whose offset is not a multiple of 1468, or
\* is greater than 1468 * (frame_packets - 1), leaves the accepted count as
\* it was, whatever its frame number.
C3_BadOffsetNeverCounted ==
    [][(Received /\ recvfrom_res' = 1472 /\ BadOffset(pkt'))
          => packets_received_' = packets_received_]_vars

C3_Witness ==
    /\ pc = "Poll"
    /\ recvfrom_res = 1472
    /\ FromCamera(pkt) /\ src_sockaddr = camera_ip
    /\ pkt.hdr[1] \in 1..frames
    /\ PacketOffset(pkt.hdr) = 734 /\ frame_packets = 2
    /\ packets_received_ = 1

\* C4: a received datagram of size 1472 or 48 whose sender is not the camera
\* address (IPv4 address and port) leaves the malformed-run counter and the
\* accepted count as they were, and the loop continues.
C4_ForeignSenderIgnored ==
    [][(Received /\ recvfrom_res' \in {1472, 48} /\ ~FromCamera(pkt'))
          => /\ incorrect_packets_length' = incorrect_packets_length
             /\ packets_received_' = packets_received_
             /\ pc' = "Poll"]_vars

Acceptable(p) ==
    /\ FromCamera(p)
    /\ \/ p.size = 48
       \/ p.size = 1472 /\ p.hdr[1] \in 1..frames /\ ~BadOffset(p)

\* C5: right after a data packet (1472 bytes, camera sender, frame number in
\* 1..frames, valid offset) or a config packet (48 bytes, camera sender) is
\* processed, the malformed-run counter is 0 and the accepted count has grown
\* by exactly 1.
C5_AcceptedResetsAndCounts ==
    [][(Received /\ Acceptable(pkt'))
          => /\ incorrect_packets_length' = 0
             /\ packets_received_' = packets_received_ + 1]_vars

\* C6: after max_incorrect_length_packets + 1 consecutive datagrams of a size
\* other than 1472 and 48 the loop has ended with result 2; and the loop ends
\* with result 2 only when the malformed-run counter is above the threshold.
C6_TooManyMalformed ==
    /\ malRun >= max_incorrect_length_packets + 1
          => (pc \notin {"Poll", "Recv"} /\ (pc \in AfterLoop => result = 2))
    /\ (pc \in AfterLoop /\ result = 2)
          => incorrect_packets_length > max_incorrect_length_packets

C6_Witness ==
    /\ pc = "ShutStop"
    /\ result = 2
    /\ max_incorrect_length_packets = 1
    /\ malRun = 2
    /\ pkt.ip # camera_ip

\* C7: a call whose poll timed out and whose restoration did not fail returns
\* 1 and reports the number of packets accepted up to the timeout.
C7_TimeoutKeepsCount ==
    (pc = "Done" /\ exit_by = "timeout" /\ ~restore_failed)
        => (ret = 1 /\ packets_received = nAccepted)

C7_Witness ==
    /\ pc = "Done"
    /\ exit_by = "timeout"
    /\ ~restore_failed
    /\ fcntl_res_required # fcntl_res_before
    /\ nAccepted = 1
    /\ packets_received = 1

\* C8: a call that returns 0, 1 or 2 leaves the socket's file-status flags as
\* they were at entry.
C8_FlagsRestored ==
    (pc = "Done" /\ ret \in {0, 1, 2}) => sock_flags = flags0

C8_Witness ==
    /\ pc = "Done"
    /\ ret = 2
    /\ (flags0 \div 2048) % 2 = 0
    /\ sock_flags = flags0
    /\ fcntl_res_required = flags0 + 2048

IsTimeoutOf(tv, ms) ==
    /\ tv.usec \in 0..999999
    /\ tv.sec * 1000000 + tv.usec = ms * 1000

C10_SystemErrorReportsZero ==
    (pc = "Done" /\ ret = -1) => packets_received = 0

\* ------------------------------------------------ order of the calls
\* the calls of lines 250-252
ShutdownCalls == <<"stop", "sleep", "drain">>

\* the calls of lines 155-166
CommandCalls == <<"stop", "drain", "start", "exposure">>

\* log without the fcntl of the restoration at its end
BeforeRestore(log) ==
    IF log # <<>> /\ log[Len(log)] = "restore"
        THEN SubSeq(log, 1, Len(log) - 1) ELSE log

EndsWith(log, tail) ==
    /\ Len(log) >= Len(tail)
    /\ SubSeq(log, Len(log) - Len(tail) + 1, Len(log)) = tail

\* the call returned at line 140 or 145: the receive loop was never left
EntryFailed == pc = "Done" /\ exit_by = "none"

\* C11 as claimed: every call that has returned made, last of all and in this
\* order, the Stop send, the settle sleep and the drain, and then went through
\* the restoration, whatever it returns.
C11_ShutdownBeforeEveryReturn ==
    pc = "Done" => EndsWith(BeforeRestore(ops), ShutdownCalls)

\* C11 as amended: a call that returns after both fcntl calls of the entry
\* succeeded made, last of all and in this order, the Stop send, the settle
\* sleep and the drain, and then the restoring fcntl exactly when the socket
\* was blocking at entry, whatever it returns; a call whose fcntl fails at
\* the entry returns -1 having sent nothing and called none of them.
C11_ShutdownUnlessEntryFails ==
    pc = "Done" =>
        IF EntryFailed
            THEN ops = <<>> /\ sent = <<>> /\ ret = -1
            ELSE /\ EndsWith(BeforeRestore(ops), ShutdownCalls)
                 /\ (ops[Len(ops)] = "restore") <=> (fcntl_res_required # fcntl_res_before)
                 /\ sent[Len(sent)] = StopCommand

C11_Witness ==
    /\ pc = "Done"
    /\ ret = -1
    /\ exit_by = "poll_error"
    /\ EndsWith(ops, ShutdownCalls \o <<"restore">>)

\* the command datagrams of lines 155, 157 and 166
CommandDatagrams ==
    <<StopCommand, StartCommand(video_format), ExposureCommand(exposure)>>

Prefix(seq, n) == SubSeq(seq, 1, IF Len(seq) < n THEN Len(seq) ELSE n)

\* C12: in every call that reaches the command sequence the first calls are,
\* in this order, Stop, drain, Start(video_format), SetExposure(exposure);
\* Start is followed by SetExposure with no call in between, whatever Stop,
\* the drain or Start returned; and until SetExposure has been attempted
\* nothing is polled or received and the output payload is untouched.
C12_StartThenExposure ==
    /\ Prefix(ops, 4) = Prefix(CommandCalls, Len(ops))
    /\ Prefix(sent, 3) = Prefix(CommandDatagrams, Len(sent))
    /\ (pc = "CmdStop") <=> (pc # "Entry" /\ ops = <<>> /\ ~EntryFailed)
    /\ (pc = "Drain") <=> (ops = Prefix(CommandCalls, 1))
    /\ (pc = "CmdStart") <=> (ops = Prefix(CommandCalls, 2))
    /\ (pc = "CmdExposure") <=> (ops = Prefix(CommandCalls, 3))
    /\ (pc = "CmdExposure") => (rc \in HelperResults /\ Len(sent) = 2)
    /\ Len(ops) < 4 => \A i \in Slots : payload[i] = PriorBytes
    /\ \A i \in DOMAIN ops :
        ops[i] = "start" => (i = Len(ops) \/ ops[i + 1] = "exposure")

C12_Witness ==
    /\ pc = "Poll"
    /\ rc = "fail"
    /\ ops = CommandCalls
    /\ sent = CommandDatagrams

\* C13: the Stop send, the settle sleep and the drain of the shutdown leave
\* result and the accepted count as the loop left them, whatever they
\* return; a restoration in which fcntl or a setsockopt fails sets result to
\* -1 and any other leaves it; and the call returns result, with
\* *packets_received 0 when the restoration failed.
C13_OnlyRestoreOverridesStatus ==
    [][/\ pc \in {"ShutStop", "ShutSleep", "ShutDrain"}
            => (result' = result /\ packets_received_' = packets_received_)
       /\ pc = "Restore"
            => /\ restore_failed' => result' = -1
               /\ ~restore_failed' => result' = result
       /\ pc = "Output"
            => /\ ret' = result
               /\ restore_failed => (ret' = -1 /\ packets_received' = 0)]_vars

C13_Witness ==
    /\ pc = "Done"
    /\ restore_failed
    /\ exit_by = "complete"
    /\ nAccepted > 0
    /\ ret = -1
    /\ packets_received = 0

\* ------------------------------------------------------ command datagrams
\* C14: every datagram handed to sendto has 8 bytes, each in 0..255, bytes
\* 2..6 are zero and byte 7 is (byte 0 + byte 1) mod 256, for any int
\* video_format and any exposure; byte 1 of the Start datagram has bit 0x80
\* set, so the Start datagram differs from the Stop datagram.
C14_ChecksumAndStartBit ==
    /\ \A i \in DOMAIN sent :
        /\ Len(sent[i]) = 8
        /\ \A j \in 1..8 : sent[i][j] \in 0..255
        /\ \A j \in 3..7 : sent[i][j] = 0
        /\ sent[i][8] = (sent[i][1] + sent[i][2]) % 256
    /\ Len(sent) >= 2 =>
        /\ ops[3] = "start"
        /\ sent[2][1] = COMMAND_STREAM
        /\ (sent[2][2] \div START_BIT) % 2 = 1
        /\ sent[2][2] % START_BIT = video_format % START_BIT
        /\ sent[2] # sent[1]
        /\ sent[1] = <<COMMAND_STREAM, 0, 0, 0, 0, 0, 0, COMMAND_STREAM>>
    /\ Len(sent) >= 3 =>
        sent[3] = <<COMMAND_EXPOSURE, exposure, 0, 0, 0, 0, 0,
                    (COMMAND_EXPOSURE + exposure) % 256>>

C14_Witness ==
    /\ Len(sent) = 4
    /\ video_format < 0
    /\ exposure = 255
    /\ sent[2][8] < sent[2][1]

\* ------------------------------------------------------------ slot order
\* C15: packets_received_ stays within 0..dst_size and changes only by +1
\* (the output block alone sets it back to 0, for a result of -1); during
\* the loop it is the number of accepted packets; the i-th accepted packet
\* is in slot i and stays there; and every receive writes the slot whose
\* index is the accepted count, which is below dst_size.
C15_SlotOrder ==
    /\ [](/\ 0 <= packets_received_ /\ packets_received_ <= dst_size
          /\ Len(accepted) <= dst_size
          /\ pc \in {"Poll", "Recv"} \cup AfterLoop
                => packets_received_ = Len(accepted)
          /\ pc = "Recv" => PacketBufferSlot(packets_received_) \in Slots
          /\ \A i \in 1..Len(accepted) : payload[i - 1] = accepted[i].bytes)
    /\ [][/\ \/ packets_received_' = packets_received_
             \/ packets_received_' = packets_received_ + 1
             \/ pc = "Output" /\ result = -1 /\ packets_received_' = 0
          /\ packets_received_' = packets_received_ + 1
                => /\ Received
                   /\ Len(accepted') = Len(accepted) + 1
                   /\ accepted'[Len(accepted')].bytes = payload'[packets_received_]
          /\ \A i \in Slots :
                payload'[i] # payload[i]
                    => (pc = "Recv" /\ i = packets_received_ /\ i >= Len(accepted))]_vars

C15_Witness ==
    /\ pc = "Poll"
    /\ dst_size = 2
    /\ Len(accepted) = 1
    /\ payload[0] = accepted[1].bytes
    /\ payload[1] # PriorBytes
    /\ payload[1] # payload[0]

\* ------------------------------------------------------- classification
\* C16: a received 1472-byte datagram from the camera whose frame number
\* exceeds frames ends the loop with result 0, whatever its offset.
C16_FrameCompleteAnyOffset ==
    [][(Received /\ recvfrom_res' = DATA_PACKET_SIZE /\ FromCamera(pkt')
            /\ pkt'.hdr[1] > frames)
          => (pc' = "ShutStop" /\ result' = 0)]_vars

\* a 1472-byte datagram from the camera that is a sentinel or has an offset
\* that is not a packet boundary of the frame
SkippedCameraPacket(p) ==
    /\ p.size = DATA_PACKET_SIZE
    /\ FromCamera(p)
    /\ (p.hdr[1] = 0 \/ BadOffset(p))

\* C17 as claimed: a received sentinel or invalid-offset packet from the
\* camera leaves incorrect_packets_length and the accepted count as they were.
C17_SkippedKeepsCounter ==
    [][(Received /\ SkippedCameraPacket(pkt'))
          => /\ incorrect_packets_length' = incorrect_packets_length
             /\ packets_received_' = packets_received_]_vars

\* C17 as amended: a received sentinel or invalid-offset packet from the
\* camera leaves the accepted count as it was, leaves the loop running and
\* leaves incorrect_packets_length at 0, so that the loop aborts only after
\* more than max_incorrect_length_packets further malformed datagrams.
C17_SkippedResetsCounter ==
    [][(Received /\ SkippedCameraPacket(pkt'))
          => /\ incorrect_packets_length' = 0
             /\ packets_received_' = packets_received_
             /\ pc' = "Poll"
             /\ result' = result]_vars

C17_Witness ==
    /\ pc = "Poll"
    /\ SkippedCameraPacket(pkt)
    /\ src_sockaddr = camera_ip
    /\ pkt.hdr[1] > frames
    /\ max_incorrect_length_packets > 0
    /\ incorrect_packets_length = 0
    /\ packets_received_ = 1

\* --------------------------------------------------------- kind markers
\* C18: when the first command is about to be sent, the marker of every one
\* of the dst_size slots is 0.
C18_AllMarkersZeroed ==
    pc = "CmdStop" => \A i \in Slots : marker[i] = 0

\* C19: when the call has returned 0, 1 or 2, for every i below
\* *packets_received the marker of slot i is 0 if the i-th accepted packet
\* was a data packet and 1 if it was a config packet.
C19_MarkersMatchKinds ==
    (pc = "Done" /\ ret \in {0, 1, 2})
        => \A i \in 0..(packets_received - 1) :
              marker[i] = IF accepted[i + 1].kind = "data" THEN 0 ELSE 1

\* ------------------------------------------------------------ termination
\* the loop body ran on a datagram that it ignores: a datagram of a protocol
\* size whose sender reads as foreign, or a skipped 1472-byte datagram (which
\* sets incorrect_packets_length to 0, line 209)
IgnoredReceive ==
    /\ Receive
    /\ pkt'.size \in {DATA_PACKET_SIZE, CONFIG_PACKET_SIZE}
    /\ \/ SenderMismatch(src_sockaddr', camera_ip)
       \/ pkt'.size = DATA_PACKET_SIZE /\ (pkt'.hdr[1] = 0 \/ BadOffset(pkt'))
    /\ pc' = "Poll"
    /\ incorrect_packets_length' \in {incorrect_packets_length, 0}
    /\ UNCHANGED <<packets_received_, result>>

\* C20: every iteration of the loop that receives a datagram ends the loop,
\* or raises the accepted count (at most to dst_size), or raises
\* incorrect_packets_length (at most to max_incorrect_length_packets), or
\* ignores a foreign, sentinel or invalid-offset datagram; when the
\* environment delivers finitely many datagrams of the last kind the call
\* reaches its return; and when it may deliver any number of them, every
\* receive can be one that leaves the loop where it was.
C20_LoopTerminates ==
    /\ (ignorable >= 0) => <>(pc = "Done")
    /\ [][Received
            => \/ pc' = "ShutStop"
               \/ /\ packets_received_' = packets_received_ + 1
                  /\ packets_received_' <= dst_size
               \/ /\ incorrect_packets_length' = incorrect_packets_length + 1
                  /\ incorrect_packets_length' <= max_incorrect_length_packets
               \/ /\ IgnoredReceive
                  /\ ignorable >= 0 => ignorable' = ignorable - 1]_vars
    /\ []((pc = "Recv" /\ ignorable = -1 /\ src_sockaddr_len # "neg")
            => ENABLED (IgnoredReceive /\ UNCHANGED incorrect_packets_length))

C20_Witness ==
    /\ pc = "Done"
    /\ ignorable = 0
    /\ SkippedCameraPacket(pkt)
    /\ src_sockaddr = camera_ip
    /\ Len(accepted) = 1
    /\ dst_size = 2
    /\ exit_by = "timeout"
====
